---------------------------- MODULE Spec2Model ----------------------------
(***************************************************************************)
(* Model of the simulation and protocol engine of airlock_gui.py           *)
(* (class AirlockGUI): the two gate motion state machines, the inbound     *)
(* telegram decoder, the sensor derivation and the serial session.         *)
(*                                                                         *)
(* Numbers.  The source computes with Python floats.  The model keeps the  *)
(* same quantities as exact rationals on integer grids:                    *)
(*   - simulated time in milliseconds (dt = 0.1 s is Dt = 100,             *)
(*     gate_animation_duration = 3.0 s is Duration = 3000);                *)
(*   - gate progress in units of 1/One, One = Duration / Dt = 30, so that  *)
(*     the value 1.0 of the source is One and one tick moves progress by   *)
(*     exactly one unit;                                                   *)
(*   - canvas coordinates in tenths of a pixel (rover_width = 127.6).      *)
(* IEEE rounding of the float operations is not modelled.                  *)
(*                                                                         *)
(* Text.  A serial line is a sequence of tokens.  The tokens "<", ">",     *)
(* ",", ":" and " " are the single characters the decoder looks at; every  *)
(* other token stands for a run of ordinary characters (a key name, a      *)
(* value, a word).                                                         *)
(***************************************************************************)
EXTENDS Integers, Sequences, FiniteSets, TLC

VARIABLES
    ser,              \* self.ser is not None
    connected,        \* self.connected
    rover_x,          \* self.rover_x, in tenths of a pixel
    sensor_states,    \* self.sensor_states
    gate_requests,    \* self.gate_requests
    gate,             \* per gate: gate_X_open, gate_X_moving, gate_X_target_state,
                      \*   gate_X_animation_time, gate_animation_progress_X
    read_thread,      \* the read_loop thread: "running", or the exception that ended it
    lines_read,       \* number of lines the link has delivered so far
    sessions,         \* number of links opened so far
    sent,             \* the last message given to ser.write, <<>> before the first
    port_open,        \* the port object self.ser refers to is open
    main_pc,          \* where the Tk thread stands inside a handler; at "idle" between handlers
    send,             \* the telemetry thread: position and locals of send_data
    anim,             \* the animation thread: position and locals of animate_gates
    proc              \* the read thread: position and locals of process_gate_requests

vars == <<ser, connected, rover_x, sensor_states, gate_requests, gate, read_thread,
          lines_read, sessions, sent, port_open, main_pc, send, anim, proc>>

\* the positions of the threads inside their handlers; the specifications that
\* take each handler as one step leave them alone
steps == <<main_pc, send, anim, proc>>

Gates == {"A", "B"}

-----------------------------------------------------------------------------
(* Bounds of the model.                                                     *)

\* lines the link delivers in one run of Spec
MaxLines == 3

\* lines the link delivers in one run of SpecDecode
MaxDecodeLines == 2

\* links opened in one behaviour
MaxSessions == 1

\* lines the link delivers in one behaviour of SpecTelemetry
MaxTelemetryLines == 2

-----------------------------------------------------------------------------
(* Constants of AirlockGUI.__init__ and of animate_gates.                  *)

\* dt = 0.1 (animate_gates), in milliseconds
Dt == 100

\* self.gate_animation_duration = 3.0, in milliseconds
Duration == 3000

\* progress 1.0, in progress units: the number of ticks of a full travel
One == Duration \div Dt

\* tenths of a pixel per pixel
Px == 10

\* self.start_x = 100
start_x == 100 * Px

\* self.front_zone_width = 408 * self.scale, scale = 0.5
front_zone_width == (408 * Px) \div 2

\* self.middle_zone_width = 560 * self.scale
middle_zone_width == (560 * Px) \div 2

\* self.back_zone_width = 408 * self.scale
back_zone_width == (408 * Px) \div 2

\* a mutant of rover_width: the factor 0.4 is missing
rover_width_Unscaled == (638 * Px) \div 2

\* self.rover_width = 638 * self.scale * 0.4  (= 127.6)
rover_width == (638 * Px * 2) \div 10

\* self.gate_a_x, self.gate_b_x
gate_x(g) == IF g = "A" THEN front_zone_width ELSE front_zone_width + middle_zone_width

\* safety_zone_width = 60 (update_sensors)
safety_zone_width == 60 * Px

\* self.rover_x = 50
InitRoverX == 50 * Px

RequestKey(g) == IF g = "A" THEN "GATE_REQUEST_A" ELSE "GATE_REQUEST_B"
MovingKey(g) == IF g = "A" THEN "GATE_MOVING_A" ELSE "GATE_MOVING_B"
SafetyKey(g) == IF g = "A" THEN "GATE_SAFETY_A" ELSE "GATE_SAFETY_B"

RequestKeys == {"GATE_REQUEST_A", "GATE_REQUEST_B"}

SensorKeys == {"PRESENCE_FRONT", "PRESENCE_MIDDLE", "PRESENCE_BACK",
               "GATE_SAFETY_A", "GATE_SAFETY_B", "GATE_MOVING_A", "GATE_MOVING_B"}

-----------------------------------------------------------------------------
(* Python string operations on token sequences.                            *)

Whitespace == {" "}

RECURSIVE LStrip(_)
LStrip(s) == IF s # <<>> /\ Head(s) \in Whitespace THEN LStrip(Tail(s)) ELSE s

RECURSIVE RStrip(_)
RStrip(s) ==
    IF s # <<>> /\ s[Len(s)] \in Whitespace THEN RStrip(SubSeq(s, 1, Len(s) - 1)) ELSE s

\* str.strip()
Strip(s) == RStrip(LStrip(s))

\* c in s
Contains(s, c) == \E i \in 1..Len(s) : s[i] = c

\* s.startswith(c), s.endswith(c) for a one-character c
StartsWith(s, c) == Len(s) > 0 /\ s[1] = c
EndsWith(s, c) == Len(s) > 0 /\ s[Len(s)] = c

\* s.split(sep): the list of the pieces between the separators; never empty
RECURSIVE Split(_, _)
Split(s, sep) ==
    IF ~Contains(s, sep) THEN <<s>>
    ELSE LET i == CHOOSE k \in 1..Len(s) :
                      s[k] = sep /\ \A j \in 1..(k - 1) : s[j] # sep
         IN  <<SubSeq(s, 1, i - 1)>> \o Split(SubSeq(s, i + 1, Len(s)), sep)

-----------------------------------------------------------------------------
(* read_arduino_data: decoding of one received line.                       *)

\* a mutant of HasColon: the test for ':' is missing
HasColon_Always(pair) == TRUE

\* if ':' in pair
HasColon(pair) == Contains(pair, ":")

\* a mutant of RequestedOpen: every value but "0" opens
RequestedOpen_AllButZero(value) == value # <<"0">>

\* value == '1'
RequestedOpen(value) == value = <<"1">>

\* the loop over pairs: updates gate_requests pair by pair; name, value =
\* pair.split(':') raises ValueError unless the split yields two pieces
\* a mutant of ParsePairs: of a repeated key the first occurrence is kept
RECURSIVE ParsePairs_FirstWins(_, _)
ParsePairs_FirstWins(pairs, req) ==
    IF pairs = <<>> THEN [requests |-> req, exc |-> "none"]
    ELSE LET pair == Head(pairs)
             rest == ParsePairs_FirstWins(Tail(pairs), req)
         IN  IF HasColon(pair)
             THEN LET parts == Split(pair, ":") IN
                  IF Len(parts) # 2 THEN [requests |-> req, exc |-> "ValueError"]
                  ELSE IF Len(parts[1]) = 1 /\ parts[1][1] \in DOMAIN req
                       THEN [rest EXCEPT !.requests[parts[1][1]] = RequestedOpen(parts[2])]
                       ELSE rest
             ELSE rest

RECURSIVE ParsePairs(_, _)
ParsePairs(pairs, req) ==
    IF pairs = <<>> THEN [requests |-> req, exc |-> "none"]
    ELSE LET pair == Head(pairs) IN
         IF HasColon(pair)
         THEN LET parts == Split(pair, ":") IN
              IF Len(parts) # 2 THEN [requests |-> req, exc |-> "ValueError"]
              ELSE LET name == parts[1]
                       value == parts[2]
                   IN  IF Len(name) = 1 /\ name[1] \in DOMAIN req
                       THEN ParsePairs(Tail(pairs),
                                       [req EXCEPT ![name[1]] = RequestedOpen(value)])
                       ELSE ParsePairs(Tail(pairs), req)
         ELSE ParsePairs(Tail(pairs), req)

\* the body of the try block for one raw line: the new gate_requests, whether
\* process_gate_requests is called, and the exception that escapes (only
\* serial.SerialException is caught)
DecodeLine(raw, req) ==
    LET line == Strip(raw) IN
    IF line = <<>>
    THEN [requests |-> req, process |-> FALSE, exc |-> "IndexError"]
    ELSE IF StartsWith(line, "<") /\ EndsWith(line, ">")
         THEN LET data == SubSeq(line, 2, Len(line) - 1)
                  r == ParsePairs(Split(data, ","), req)
              IN  [requests |-> r.requests, process |-> (r.exc = "none"), exc |-> r.exc]
         ELSE [requests |-> req, process |-> FALSE, exc |-> "none"]

-----------------------------------------------------------------------------
(* process_gate_requests, for one gate.  st is the gate's record.          *)

\* a mutant of OpeningTime: the timer restarts at 0
OpeningTime_Restart(st) == 0

\* animation_time = progress * duration
OpeningTime(st) == (st.animation_progress * Duration) \div One

\* a mutant of ClosingTime: the timer restarts at 0
ClosingTime_Restart(st) == 0

\* animation_time = (1.0 - progress) * duration
ClosingTime(st) == ((One - st.animation_progress) * Duration) \div One

\* a mutant of ProcessOpenRequest: the test "not fully open" is missing
ProcessOpenRequest_NoOpenCheck(st) ==
    IF ~st.moving
    THEN [st EXCEPT !.target_state = TRUE, !.moving = TRUE,
                    !.animation_time = OpeningTime(st)]
    ELSE IF ~st.target_state
         THEN [st EXCEPT !.target_state = TRUE, !.animation_time = OpeningTime(st)]
         ELSE st

\* a mutant of ProcessOpenRequest: a gate already opening starts over
ProcessOpenRequest_Rewind(st) ==
    IF ~st.moving
    THEN IF ~st.open
         THEN [st EXCEPT !.target_state = TRUE, !.moving = TRUE,
                         !.animation_time = OpeningTime(st)]
         ELSE st
    ELSE [st EXCEPT !.target_state = TRUE, !.animation_time = 0]

\* Request = 1: OPEN
ProcessOpenRequest(st) ==
    IF ~st.moving
    THEN IF ~st.open
         THEN [st EXCEPT !.target_state = TRUE, !.moving = TRUE,
                         !.animation_time = OpeningTime(st)]
         ELSE st
    ELSE IF ~st.target_state
         THEN [st EXCEPT !.target_state = TRUE, !.animation_time = OpeningTime(st)]
         ELSE st

\* a mutant of ProcessCloseRequest: a resting gate is closed at once
ProcessCloseRequest_Snap(st) ==
    IF ~st.moving
    THEN IF st.open
         THEN [st EXCEPT !.target_state = FALSE, !.open = FALSE, !.animation_progress = 0]
         ELSE st
    ELSE IF st.target_state
         THEN [st EXCEPT !.target_state = FALSE, !.animation_time = ClosingTime(st)]
         ELSE st

\* Request = 0: CLOSE
ProcessCloseRequest(st) ==
    IF ~st.moving
    THEN IF st.open
         THEN [st EXCEPT !.target_state = FALSE, !.moving = TRUE,
                         !.animation_time = ClosingTime(st)]
         ELSE st
    ELSE IF st.target_state
         THEN [st EXCEPT !.target_state = FALSE, !.animation_time = ClosingTime(st)]
         ELSE st

ProcessGate(st, request) ==
    IF request THEN ProcessOpenRequest(st) ELSE ProcessCloseRequest(st)

\* sensor_states['GATE_MOVING_X'] = True where a gate starts moving
ProcessMovingFlags(sens, old, new) ==
    [k \in SensorKeys |->
        IF \E g \in Gates : k = MovingKey(g) /\ ~old[g].moving /\ new[g].moving
        THEN TRUE ELSE sens[k]]

-----------------------------------------------------------------------------
(* animate_gates, for one gate.                                             *)

\* safety_triggered: the read of sensor_states['GATE_SAFETY_X'] is commented
\* out and the flag is set to False
safety_triggered(g, sens) == FALSE

Min(a, b) == IF a <= b THEN a ELSE b

\* progress = min(animation_time / duration, 1.0)
ProgressAt(time) == Min((time * One) \div Duration, One)

\* a mutant of Finished: the end test is strict
Finished_Strict(progress) == progress > One

\* if progress >= 1.0
Finished(progress) == progress >= One

\* a mutant of FullyOpened: gate_X_open is not set
FullyOpened_OpenNotSet(st) ==
    [st EXCEPT !.animation_progress = One, !.moving = FALSE, !.animation_time = 0]

\* the gate has fully opened
FullyOpened(st) ==
    [st EXCEPT !.animation_progress = One, !.open = TRUE,
               !.moving = FALSE, !.animation_time = 0]

\* a mutant of FullyClosed: gate_X_moving is not cleared
FullyClosed_StillMoving(st) ==
    [st EXCEPT !.animation_progress = 0, !.open = FALSE, !.animation_time = 0]

\* the gate has fully closed
FullyClosed(st) ==
    [st EXCEPT !.animation_progress = 0, !.open = FALSE,
               !.moving = FALSE, !.animation_time = 0]

\* the Opening branch
AnimateOpening(st) ==
    LET time == st.animation_time + Dt
        progress == ProgressAt(time)
    IN  IF Finished(progress) THEN FullyOpened(st)
        ELSE [st EXCEPT !.animation_progress = progress, !.animation_time = time]

\* the Closing branch, not paused
AnimateClosing(st) ==
    LET time == st.animation_time + Dt
        progress == ProgressAt(time)
    IN  IF Finished(progress) THEN FullyClosed(st)
        ELSE [st EXCEPT !.animation_progress = One - progress, !.animation_time = time]

\* a mutant of AnimateMoving: the safety sensor pauses opening too
AnimateMoving_InterlockOnOpening(g, st, sens) ==
    IF sens[SafetyKey(g)] THEN st
    ELSE IF st.target_state THEN AnimateOpening(st) ELSE AnimateClosing(st)

\* the body of "if self.gate_X_moving"
AnimateMoving(g, st, sens) ==
    IF st.target_state THEN AnimateOpening(st)
    ELSE IF ~safety_triggered(g, sens) THEN AnimateClosing(st)
         ELSE st

\* a mutant of AnimateGate: gates move only while the link is up
AnimateGate_OnlyConnected(g, st, sens) ==
    IF ~st.moving \/ ~connected THEN st ELSE AnimateMoving(g, st, sens)

\* a mutant of AnimateGate: the test of gate_X_moving is missing
AnimateGate_NoMovingTest(g, st, sens) == AnimateMoving(g, st, sens)

AnimateGate(g, st, sens) ==
    IF ~st.moving THEN st ELSE AnimateMoving(g, st, sens)

\* a mutant of AnimateMovingFlags: sensor_states['GATE_MOVING_X'] is not cleared where a gate stops
AnimateMovingFlags_Kept(sens, old, new) == sens

\* sensor_states['GATE_MOVING_X'] = False where a gate stops
AnimateMovingFlags(sens, old, new) ==
    [k \in SensorKeys |->
        IF \E g \in Gates : k = MovingKey(g) /\ old[g].moving /\ ~new[g].moving
        THEN FALSE ELSE sens[k]]

-----------------------------------------------------------------------------
(* update_sensors.                                                          *)

rover_left(x) == x - rover_width \div 2
\* a mutant of rover_right: the right edge a tenth of a pixel short
rover_right_Short(x) == x + rover_width \div 2 - 1

rover_right(x) == x + rover_width \div 2

front_sensor_x == start_x + front_zone_width \div 2
middle_sensor_x == start_x + front_zone_width + middle_zone_width \div 2
back_sensor_x == start_x + front_zone_width + middle_zone_width + back_zone_width \div 2

\* a mutant of GateSafety: touching edges count as overlap
GateSafety_Touching(g, x) ==
    LET gate_pos == start_x + gate_x(g) IN
    /\ x + rover_width \div 2 >= gate_pos - safety_zone_width \div 2
    /\ x - rover_width \div 2 <= gate_pos + safety_zone_width \div 2

GateSafety(g, x) ==
    LET gate_pos == start_x + gate_x(g) IN
    /\ rover_right(x) > gate_pos - safety_zone_width \div 2
    /\ rover_left(x) < gate_pos + safety_zone_width \div 2

\* a mutant of UpdateSensors: GATE_SAFETY_B is not assigned
UpdateSensors_NoSafetyB(sens, x) ==
    [sens EXCEPT
        !["PRESENCE_FRONT"] = rover_left(x) <= front_sensor_x /\ front_sensor_x <= rover_right(x),
        !["PRESENCE_MIDDLE"] = rover_left(x) <= middle_sensor_x /\ middle_sensor_x <= rover_right(x),
        !["PRESENCE_BACK"] = rover_left(x) <= back_sensor_x /\ back_sensor_x <= rover_right(x),
        !["GATE_SAFETY_A"] = GateSafety("A", x)]

UpdateSensors(sens, x) ==
    [sens EXCEPT
        !["PRESENCE_FRONT"] = rover_left(x) <= front_sensor_x /\ front_sensor_x <= rover_right(x),
        !["PRESENCE_MIDDLE"] = rover_left(x) <= middle_sensor_x /\ middle_sensor_x <= rover_right(x),
        !["PRESENCE_BACK"] = rover_left(x) <= back_sensor_x /\ back_sensor_x <= rover_right(x),
        !["GATE_SAFETY_A"] = GateSafety("A", x),
        !["GATE_SAFETY_B"] = GateSafety("B", x)]

-----------------------------------------------------------------------------------------------------------------------------------------------------
(* send_data.                                                               *)

\* the keys of sensor_states in the order the dict was built with
SensorOrder == <<"PRESENCE_FRONT", "PRESENCE_MIDDLE", "PRESENCE_BACK",
                 "GATE_SAFETY_A", "GATE_SAFETY_B", "GATE_MOVING_A", "GATE_MOVING_B">>

\* a mutant of Bit: str(state), "True"/"False", in place of "1"/"0"
Bit_Str(state) == IF state THEN "True" ELSE "False"

\* "1" if state else "0"
Bit(state) == IF state THEN "1" ELSE "0"

\* a mutant of Part: '=' between name and value
Part_Equals(name, state) == <<name, "=", Bit(state)>>

\* f"{name}:{value}"
Part(name, state) == <<name, ":", Bit(state)>>

\* the loop over sensor_states.items() that leaves the two GATE_MOVING keys out
RECURSIVE SensorParts(_, _)
SensorParts(names, sens) ==
    IF names = <<>> THEN <<>>
    ELSE IF Head(names) \in {"GATE_MOVING_A", "GATE_MOVING_B"}
         THEN SensorParts(Tail(names), sens)
         ELSE <<Part(Head(names), sens[Head(names)])>> \o SensorParts(Tail(names), sens)

\* data_parts: the sensor parts, then the two moving parts from gate_X_moving
DataParts(sens, gates) ==
    SensorParts(SensorOrder, sens)
        \o <<Part("GATE_MOVING_A", gates["A"].moving), Part("GATE_MOVING_B", gates["B"].moving)>>

\* sep.join(parts)
RECURSIVE Join(_, _)
Join(parts, sep) ==
    IF parts = <<>> THEN <<>>
    ELSE IF Len(parts) = 1 THEN Head(parts)
         ELSE Head(parts) \o <<sep>> \o Join(Tail(parts), sep)

\* message = "<" + ",".join(data_parts) + ">"
Message(sens, gates) == <<"<">> \o Join(DataParts(sens, gates), ",") \o <<">">>

-----------------------------------------------------------------------------
(* Inputs.                                                                  *)

\* rover positions a drag can set: the initial place, astride gate A, astride
\* gate B
DragXs == {50 * Px, 304 * Px, 584 * Px}

KV(k, v) == <<k, ":">> \o v
Telegram(body) == <<"<">> \o body \o <<">">>

\* lines the serial link can deliver in Spec
Lines ==
    { Telegram(KV(k, <<v>>)) : k \in RequestKeys, v \in {"0", "1"} }
    \cup { Telegram(KV("GATE_REQUEST_A", <<v>>) \o <<",">> \o KV("GATE_REQUEST_B", <<v>>)) :
              v \in {"0", "1"} }
    \cup { <<>>, <<" ">>, <<"garbage">>, <<"<", "garbage">>, <<"garbage", ">">>,
           Telegram(<<>>), Telegram(<<"no_colon_here">>),
           Telegram(KV("A", <<"1">>) \o <<",", "B">>),
           Telegram(KV("PRESENCE_FRONT", <<"1">>)),
           Telegram(KV("GATE_REQUEST_A", <<"x">>)),
           Telegram(KV("GATE_REQUEST_B", <<>>)),
           Telegram(KV("GATE_REQUEST_A", <<"1", ":", "1">>)),
           Telegram(KV("GATE_REQUEST_B", <<"1">>) \o <<",">> \o KV("A", <<"1", ":">>)),
           Telegram(KV("GATE_REQUEST_A", <<"1">>)) \o <<" ">>,
           Telegram(KV("GATE_REQUEST_B", <<"0">>) \o <<",">> \o KV("GATE_REQUEST_B", <<"1">>)) }

\* keys and values of the telegrams SpecDecode delivers: the two request keys,
\* a sensor key, a request key in lower case; "1", "0", no text, other text
DecodeKeys == {"GATE_REQUEST_A", "GATE_REQUEST_B", "GATE_MOVING_A", "gate_request_a"}
DecodeValues == {<<"1">>, <<"0">>, <<>>, <<"x">>, <<"1", "1">>, <<"1", " ">>}
DecodePairs == { KV(k, v) : k \in DecodeKeys, v \in DecodeValues }

\* telegrams of one key:value pair, and of two where the first value is a digit
DecodeLines ==
    { Telegram(p) : p \in DecodePairs }
    \cup { Telegram(KV(k, <<v>>) \o <<",">> \o q) :
              k \in DecodeKeys, v \in {"0", "1"}, q \in DecodePairs }

-----------------------------------------------------------------------------
(* The state after AirlockGUI.__init__.                                     *)

InitGate == [open |-> FALSE, moving |-> FALSE, target_state |-> FALSE,
             animation_time |-> 0, animation_progress |-> 0]

\* the Tk thread at a statement of a handler
MainAt(label) == [at |-> label, i |-> 0]

\* the threads between two passes of their loops
SendIdle == [pc |-> "idle", i |-> 0, parts |-> <<>>]
AnimIdle == [pc |-> "idle", g |-> "A", opening |-> FALSE, progress |-> 0]
ProcIdle == [pc |-> "idle", g |-> "A", request |-> FALSE, start |-> FALSE,
             processed |-> [g \in Gates |-> FALSE]]

Init ==
    /\ ser = FALSE
    /\ connected = FALSE
    /\ rover_x = InitRoverX
    /\ sensor_states = [k \in SensorKeys |-> FALSE]
    /\ gate_requests = [k \in RequestKeys |-> FALSE]
    /\ gate = [g \in Gates |-> InitGate]
    /\ read_thread = "running"
    /\ lines_read = 0
    /\ sessions = 0
    /\ sent = <<>>
    /\ port_open = FALSE
    /\ main_pc = MainAt("idle")
    /\ send = SendIdle
    /\ anim = AnimIdle
    /\ proc = ProcIdle

-----------------------------------------------------------------------------
(* Operations.                                                              *)

\* connect_serial with a port that opens; its last statement is send_data()
ConnectSerial ==
    /\ main_pc = MainAt("idle")
    /\ ~connected
    /\ ser' = TRUE
    /\ connected' = TRUE
    /\ sent' = Message(sensor_states, gate)
    /\ sessions' = sessions + 1
    /\ port_open' = TRUE
    /\ UNCHANGED <<rover_x, sensor_states, gate_requests, gate, read_thread, lines_read>>
    /\ UNCHANGED steps

Connect == sessions < MaxSessions /\ ConnectSerial

\* disconnect_serial
Disconnect ==
    /\ main_pc = MainAt("idle")
    /\ connected
    /\ ser' = FALSE
    /\ connected' = FALSE
    /\ port_open' = FALSE
    /\ UNCHANGED <<rover_x, sensor_states, gate_requests, gate, read_thread, lines_read, sessions, sent>>
    /\ UNCHANGED steps

\* process_gate_requests: gate A, then gate B
ProcessGateRequests(gates, req) ==
    [g \in Gates |-> ProcessGate(gates[g], req[RequestKey(g)])]

\* what read_arduino_data does to the state on one line that is waiting
ReadEffect(raw) ==
    LET d == DecodeLine(raw, gate_requests)
        new == IF d.process THEN ProcessGateRequests(gate, d.requests) ELSE gate
    IN  [gate_requests |-> d.requests,
         gate |-> new,
         sensor_states |-> ProcessMovingFlags(sensor_states, gate, new),
         read_thread |-> IF d.exc = "none" THEN "running" ELSE d.exc]

\* the read loop is alive and read_arduino_data does not return at once
CanRead == read_thread = "running" /\ connected /\ ser

\* read_arduino_data on one line that is waiting
ReadArduinoData(raw) ==
    /\ CanRead
    /\ LET e == ReadEffect(raw)
       IN  /\ gate_requests' = e.gate_requests
           /\ gate' = e.gate
           /\ sensor_states' = e.sensor_states
           /\ read_thread' = e.read_thread
    /\ lines_read' = lines_read + 1
    /\ UNCHANGED <<ser, connected, rover_x, sessions, sent, port_open, steps>>

\* one pass of read_loop that finds a line
ReadLine(raw) == lines_read < MaxLines /\ ReadArduinoData(raw)

ReadDecodeLine(raw) == lines_read < MaxDecodeLines /\ ReadArduinoData(raw)

\* a mutant of Tick: the animation carries the rover along by one pixel
Tick_CarriesRover ==
    /\ LET new == [g \in Gates |-> AnimateGate(g, gate[g], sensor_states)]
       IN  /\ gate' = new
           /\ sensor_states' = AnimateMovingFlags(sensor_states, gate, new)
    /\ rover_x' = IF \E g \in Gates : gate[g].moving THEN rover_x + Px ELSE rover_x
    /\ UNCHANGED <<ser, connected, gate_requests, read_thread, lines_read, sessions, sent>>
    /\ UNCHANGED <<port_open, steps>>

\* one pass of animation_loop: animate_gates
Tick ==
    /\ LET new == [g \in Gates |-> AnimateGate(g, gate[g], sensor_states)]
       IN  /\ gate' = new
           /\ sensor_states' = AnimateMovingFlags(sensor_states, gate, new)
    /\ UNCHANGED <<ser, connected, rover_x, gate_requests, read_thread, lines_read, sessions, sent>>
    /\ UNCHANGED <<port_open, steps>>

\* on_canvas_drag while the rover is grabbed
MoveRover(x) ==
    /\ main_pc = MainAt("idle")
    /\ rover_x' = x
    /\ sensor_states' = UpdateSensors(sensor_states, x)
    /\ UNCHANGED <<ser, connected, gate_requests, gate, read_thread, lines_read, sessions, sent>>
    /\ UNCHANGED <<port_open, steps>>

\* one pass of sensor_update_loop while connected: send_data
SendData ==
    /\ connected /\ ser
    /\ sent' = Message(sensor_states, gate)
    /\ UNCHANGED <<ser, connected, rover_x, sensor_states, gate_requests, gate, read_thread,
                   lines_read, sessions, port_open, steps>>

Next ==
    \/ Connect
    \/ Disconnect
    \/ \E raw \in Lines : ReadLine(raw)
    \/ Tick
    \/ \E x \in DragXs : MoveRover(x)

Spec == Init /\ [][Next]_vars

\* the decoder on a wide set of telegrams
NextDecode ==
    \/ Connect
    \/ \E raw \in DecodeLines : ReadDecodeLine(raw)
    \/ Tick

SpecDecode == Init /\ [][NextDecode]_vars

\* rover positions for the telemetry: the initial place, on each sensor line,
\* over the front sensor line and the zone of gate A at once, astride gate B
TelemetryXs == {50 * Px, 202 * Px, 240 * Px, 444 * Px, 584 * Px, 686 * Px}

\* the request telegrams of one key
RequestLines ==
    { Telegram(KV(k, <<v>>)) : k \in RequestKeys, v \in {"0", "1"} }

ReadTelemetryLine(raw) == lines_read < MaxTelemetryLines /\ ReadArduinoData(raw)

\* the telemetry loop beside the other loops
NextTelemetry ==
    \/ Connect
    \/ Disconnect
    \/ \E raw \in RequestLines : ReadTelemetryLine(raw)
    \/ Tick
    \/ \E x \in TelemetryXs : MoveRover(x)
    \/ SendData

SpecTelemetry == Init /\ [][NextTelemetry]_vars

\* whole-pixel rover positions next to every place where a rover edge meets a
\* sensor line or the edge of a safety zone, and on the lines and gates
SensorXs ==
    { px * Px : px \in {50, 138, 139, 202, 210, 211, 265, 266, 304, 397, 398, 444,
                        380, 381, 490, 491, 507, 508, 584, 622, 623, 677, 678, 686,
                        749, 750} }

\* the rover, the link and the telemetry loop with the gates at rest
NextSensors ==
    \/ Connect
    \/ Disconnect
    \/ \E x \in SensorXs : MoveRover(x)
    \/ SendData

SpecSensors == Init /\ [][NextSensors]_vars

\* the rightmost pixel the arrow keys take the rover to in SpecRover
MaxRoverPx == 800

\* on_key_press: Left (d = -1) or Right (d = 1), one pixel, then update_sensors
KeyPress(d) ==
    /\ 0 <= rover_x + d * Px
    /\ rover_x + d * Px <= MaxRoverPx * Px
    /\ MoveRover(rover_x + d * Px)

\* the rover under drags and arrow keys, the link and the telemetry loop
NextRover ==
    \/ Connect
    \/ Disconnect
    \/ \E x \in DragXs : MoveRover(x)
    \/ \E d \in {-1, 1} : KeyPress(d)
    \/ SendData

SpecRover == Init /\ [][NextRover]_vars

\* the lines read in SpecPose
MaxPoseLines == 1

\* one pass of read_loop that finds a request telegram, in SpecPose
ReadPoseLine(raw) == lines_read < MaxPoseLines /\ ReadArduinoData(raw)

\* everything that acts on the rover or runs beside it: drags, arrow keys,
\* inbound lines and ticks
NextPose ==
    \/ Connect
    \/ \E raw \in RequestLines : ReadPoseLine(raw)
    \/ Tick
    \/ \E x \in DragXs : MoveRover(x)
    \/ \E d \in {-1, 1} : KeyPress(d)

SpecPose == Init /\ [][NextPose]_vars

-----------------------------------------------------------------------------
(* Phases of a gate.                                                        *)

Phase(g) ==
    IF gate[g].moving
    THEN (IF gate[g].target_state THEN "Opening" ELSE "Closing")
    ELSE (IF gate[g].open THEN "Open" ELSE "Sealed")

-----------------------------------------------------------------------------
(* Closing interlock.                                                       *)

Closing(g) == Phase(g) = "Closing"
Opening(g) == Phase(g) = "Opening"

\* C1: a tick taken while a gate is Closing and that gate's own safety sensor
\* is true leaves the gate's progress and elapsed time unchanged.
C1_ClosingInterlock ==
    [][Tick =>
        \A g \in Gates :
            (Closing(g) /\ sensor_states[SafetyKey(g)]) =>
                /\ gate'[g].animation_progress = gate[g].animation_progress
                /\ gate'[g].animation_time = gate[g].animation_time]_vars

-----------------------------------------------------------------------------
(* Progress bounds.                                                         *)

\* C2: in every reachable state each gate's progress lies in [0, 1], a Sealed
\* gate has progress 0 and an Open gate has progress 1.
C2_ProgressBounds ==
    \A g \in Gates :
        /\ 0 <= gate[g].animation_progress
        /\ gate[g].animation_progress <= One
        /\ (Phase(g) = "Sealed" => gate[g].animation_progress = 0)
        /\ (Phase(g) = "Open" => gate[g].animation_progress = One)

\* gate A has travelled the whole way and rests Open while gate B is part way
C2_Witness ==
    /\ Phase("A") = "Open" /\ gate["A"].animation_progress = One
    /\ Phase("B") = "Closing"
    /\ gate["B"].animation_progress > 0 /\ gate["B"].animation_progress < One

-----------------------------------------------------------------------------
(* Reversal, opening, the open cycle, the terminal phases.                  *)

\* n consecutive passes of animate_gates over one gate
RECURSIVE TickN(_, _, _, _)
TickN(g, st, sens, n) ==
    IF n = 0 THEN st ELSE TickN(g, AnimateGate(g, st, sens), sens, n - 1)

\* the gate's record after a request for the direction opposite to the one it
\* is moving in, and after the tick that follows that request
Reversed(g) == ProcessGate(gate[g], ~gate[g].target_state)
ReversedThenTick(g) == AnimateGate(g, Reversed(g), sensor_states)

\* C3 as stated: from any moving gate at any progress p, the tick that follows
\* a request for the opposite direction yields p plus or minus exactly one
\* tick's delta, in the new direction.
C3_ReversalContinuity ==
    \A g \in Gates :
        gate[g].moving =>
            ReversedThenTick(g).animation_progress =
                gate[g].animation_progress + (IF Reversed(g).target_state THEN 1 ELSE -1)

\* the new direction's end value is the value the gate already has
AtEndOfNewDirection(g) ==
    gate[g].animation_progress = (IF Reversed(g).target_state THEN One ELSE 0)

\* C3 (amended): from a moving gate at progress p, the tick that follows a
\* request for the opposite direction yields p plus or minus exactly one tick's
\* delta in the new direction, unless p already is the end value of the new
\* direction (p = 1 reversed to opening, p = 0
\* reversed to closing): then the tick leaves progress at p.  The progress
\* never changes by more than one delta and never restarts from the far end.
C3_ReversalContinuityAmended ==
    \A g \in Gates :
        gate[g].moving =>
            /\ Reversed(g).animation_progress = gate[g].animation_progress
            /\ Reversed(g).target_state = ~gate[g].target_state
            /\ IF AtEndOfNewDirection(g)
               THEN ReversedThenTick(g).animation_progress = gate[g].animation_progress
               ELSE ReversedThenTick(g).animation_progress =
                        gate[g].animation_progress
                            + (IF Reversed(g).target_state THEN 1 ELSE -1)

\* gate A was opening from Sealed, was reversed at progress 0.4 (12 ticks) and
\* the following tick has brought it to 11/30
C3_Witness ==
    /\ Closing("A") /\ ~gate["A"].open
    /\ gate["A"].animation_progress = 11
    /\ gate["A"].animation_time = Duration - 11 * Dt

\* ticks an opening gate still needs
TicksToOpen(st) ==
    IF st.animation_time + Dt >= Duration THEN 1
    ELSE (Duration - st.animation_time + Dt - 1) \div Dt

\* sensor_states with the two safety sensors set to sa and sb
WithSafety(sa, sb) ==
    [sensor_states EXCEPT !["GATE_SAFETY_A"] = sa, !["GATE_SAFETY_B"] = sb]

\* C4: while a gate's target is open every tick advances it, whatever the
\* safety sensors say, and it is Open with progress 1 after at most 30 ticks:
\* an opening gate needs between 1 and 30 more ticks, a tick has the same
\* effect on it under every value of the safety sensors, and each tick either
\* raises progress by one delta and lowers the ticks needed by one, or (when
\* one tick is needed) ends in Open with progress 1.
C4_OpeningNeverBlocked ==
    /\ [](\A g \in Gates :
            Opening(g) =>
                /\ TicksToOpen(gate[g]) \in 1..One
                /\ \A sa \in BOOLEAN, sb \in BOOLEAN :
                      AnimateGate(g, gate[g], WithSafety(sa, sb))
                          = AnimateGate(g, gate[g], sensor_states))
    /\ [][Tick =>
            \A g \in Gates :
                Opening(g) =>
                    IF TicksToOpen(gate[g]) = 1
                    THEN Phase(g)' = "Open" /\ gate'[g].animation_progress = One
                    ELSE /\ Opening(g)'
                         /\ TicksToOpen(gate'[g]) = TicksToOpen(gate[g]) - 1
                         /\ gate'[g].animation_progress
                                = gate[g].animation_progress + 1]_vars

\* gate A is half way open with the rover astride it
C4_Witness ==
    /\ Opening("A") /\ gate["A"].animation_progress = 15
    /\ sensor_states["GATE_SAFETY_A"]

OpenGate == [open |-> TRUE, moving |-> FALSE, target_state |-> TRUE,
             animation_time |-> 0, animation_progress |-> One]

SealedGate == [open |-> FALSE, moving |-> FALSE, target_state |-> FALSE,
               animation_time |-> 0, animation_progress |-> 0]

\* C5: from Sealed, after request(open) the gate is Opening after each of the
\* first 29 ticks and Open with progress 1, elapsed 0 and the moving flag
\* cleared after the 30th; from Open, after request(close) with the safety
\* sensors clear it is Closing after each of the first 29 ticks and Sealed with
\* progress 0 after the 30th.
C5_GateOpenCycle ==
    \A g \in Gates :
        /\ Phase(g) = "Sealed" =>
              LET s0 == ProcessGate(gate[g], TRUE) IN
              /\ s0.moving /\ s0.target_state
              /\ \A k \in 1..(One - 1) :
                    LET s == TickN(g, s0, sensor_states, k) IN
                    s.moving /\ s.target_state /\ s.animation_progress = k
              /\ TickN(g, s0, sensor_states, One) = OpenGate
        /\ Phase(g) = "Open" =>
              LET s0 == ProcessGate(gate[g], FALSE) IN
              /\ s0.moving /\ ~s0.target_state
              /\ \A k \in 1..(One - 1) :
                    LET s == TickN(g, s0, WithSafety(FALSE, FALSE), k) IN
                    s.moving /\ ~s.target_state /\ s.animation_progress = One - k
              /\ TickN(g, s0, WithSafety(FALSE, FALSE), One) = SealedGate

\* gate A has run the open cycle and gate B the open and the close cycle:
\* one request each way and the ticks between them
C5_Witness ==
    /\ gate["A"] = OpenGate
    /\ gate["B"] = SealedGate /\ gate_requests["GATE_REQUEST_B"] = FALSE
    /\ lines_read = 2

\* C6: a tick leaves a gate that is Sealed or Open as it is: phase, progress,
\* target direction, elapsed time and moving flag.
C6_TickIdempotentAtTerminal ==
    [][Tick =>
        \A g \in Gates :
            ~gate[g].moving =>
                /\ gate'[g] = gate[g]
                /\ sensor_states'[MovingKey(g)] = sensor_states[MovingKey(g)]]_vars

\* gate A rests Open, gate B rests Sealed after a full cycle
C6_Witness ==
    /\ Phase("A") = "Open" /\ Phase("B") = "Sealed"
    /\ gate_requests["GATE_REQUEST_A"] /\ lines_read = MaxLines

-----------------------------------------------------------------------------
(* Decoding of inbound lines.                                               *)

\* C7: decoding is total: no inbound line makes read_arduino_data raise, so
\* the read loop keeps running and later lines are decoded and applied.
C7_DecodingTotal == read_thread = "running"

\* "garbage", "<no_colon_here>", "<A:1,B>"
MalformedLines ==
    { <<"garbage">>,
      Telegram(<<"no_colon_here">>),
      Telegram(KV("A", <<"1">>) \o <<",", "B">>) }

\* C8: reading "garbage", "<no_colon_here>" or "<A:1,B>" does not raise and
\* causes no recognized update: the stored requests and every gate's phase,
\* progress, target direction, elapsed time and moving flag stay as they are.
C8_MalformedInputTolerance ==
    CanRead =>
        \A raw \in MalformedLines :
            LET e == ReadEffect(raw)
            IN  /\ e.read_thread = "running"
                /\ e.gate_requests = gate_requests
                /\ e.gate = gate
                /\ e.sensor_states = sensor_states

\* lines have been read and more can be; gate A is opening and gate B rests
\* Open, so that process_gate_requests has open requests to find already served
C8_Witness ==
    /\ CanRead /\ lines_read = 2
    /\ Opening("A") /\ gate["A"].animation_progress = 5
    /\ Phase("B") = "Open"
    /\ MalformedLines \subseteq Lines

\* the lines that do not carry the GATE_REQUEST key of gate g
LinesWithoutKey == [g \in Gates |-> {raw \in Lines : ~Contains(raw, RequestKey(g))}]

\* C9: a line that carries no GATE_REQUEST key of a gate (a telegram for the
\* other gate, a telegram of unrecognized keys, "<>", any other line) leaves
\* that gate's phase, progress, target direction and elapsed time unchanged.
C9_PerKeyDispatch ==
    CanRead =>
        \A g \in Gates : \A raw \in LinesWithoutKey[g] :
            ReadEffect(raw).gate[g] = gate[g]

\* gate B was opened and then closed by its own telegrams while gate A, opened
\* before, kept its course
C9_Witness ==
    /\ CanRead
    /\ Opening("A") /\ gate["A"].animation_progress = 20
    /\ Closing("B") /\ ~gate["B"].open /\ gate["B"].animation_progress = 3
    /\ lines_read = MaxLines

\* the value text that follows the last occurrence of key k in a telegram of
\* key:value pairs: the tokens between the ":" after the key and the next ","
\* or ">"
LastValue(raw, k) ==
    LET i == CHOOSE n \in 1..Len(raw) :
                 raw[n] = k /\ \A m \in (n + 1)..Len(raw) : raw[m] # k
        e == CHOOSE n \in (i + 2)..Len(raw) :
                 raw[n] \in {",", ">"} /\ \A m \in (i + 2)..(n - 1) : raw[m] \notin {",", ">"}
    IN  SubSeq(raw, i + 2, e - 1)

\* the requests a telegram of key:value pairs asks for: for each request key
\* it carries, open if and only if the value is exactly "1"
RequestsAsked(raw) ==
    [k \in RequestKeys |->
        IF Contains(raw, k) THEN LastValue(raw, k) = <<"1">> ELSE gate_requests[k]]

\* the gate's record after request(open) or request(close) as the spec's 4.2
\* describes it, from the phase alone
Requested(g, open) ==
    IF open
    THEN CASE Phase(g) = "Sealed" -> [gate[g] EXCEPT !.moving = TRUE, !.target_state = TRUE,
                                                      !.animation_time = 0]
           [] Phase(g) = "Closing" -> [gate[g] EXCEPT !.target_state = TRUE,
                                          !.animation_time = gate[g].animation_progress * Dt]
           [] OTHER -> gate[g]
    ELSE CASE Phase(g) = "Open" -> [gate[g] EXCEPT !.moving = TRUE, !.target_state = FALSE,
                                                    !.animation_time = 0]
           [] Phase(g) = "Opening" -> [gate[g] EXCEPT !.target_state = FALSE,
                                          !.animation_time = (One - gate[g].animation_progress) * Dt]
           [] OTHER -> gate[g]

-----------------------------------------------------------------------------
(* Outbound telegrams.                                                      *)

\* the outbound keys in their order
OutboundKeys == <<"PRESENCE_FRONT", "PRESENCE_MIDDLE", "PRESENCE_BACK",
                  "GATE_SAFETY_A", "GATE_SAFETY_B", "GATE_MOVING_A", "GATE_MOVING_B">>

\* '<', seven pairs key:value in the order of OutboundKeys with commas between
\* them, each value "0" or "1", '>'
WellShaped(msg) ==
    /\ Len(msg) = 4 * Len(OutboundKeys) + 1
    /\ msg[1] = "<"
    /\ msg[Len(msg)] = ">"
    /\ \A i \in 1..Len(OutboundKeys) :
          /\ msg[4 * i - 2] = OutboundKeys[i]
          /\ msg[4 * i - 1] = ":"
          /\ msg[4 * i] \in {"0", "1"}
          /\ i < Len(OutboundKeys) => msg[4 * i + 1] = ","

\* C11: every telegram written to the transport is '<', the seven pairs
\* PRESENCE_FRONT, PRESENCE_MIDDLE, PRESENCE_BACK, GATE_SAFETY_A, GATE_SAFETY_B,
\* GATE_MOVING_A, GATE_MOVING_B in that order, comma-separated, each with value
\* "0" or "1", then '>'.
C11_OutboundTelegramShape == sent # <<>> => WellShaped(sent)

\* a telegram written with the rover over the front sensor line and the zone
\* of gate A while gate A moves: values "1" and "0" both occur
C11_Witness ==
    /\ sent = Message(sensor_states, gate)
    /\ sensor_states["PRESENCE_FRONT"] /\ sensor_states["GATE_SAFETY_A"]
    /\ ~sensor_states["PRESENCE_BACK"]
    /\ gate["A"].moving /\ ~gate["B"].moving
    /\ rover_x = 240 * Px

-----------------------------------------------------------------------------
(* The moving flags.                                                        *)

\* the value a telegram carries for a key
TelegramValue(msg, k) == msg[(CHOOSE i \in 1..Len(msg) : msg[i] = k) + 2]

\* C12: for each gate the GATE_MOVING value of the sensor snapshot, and the
\* GATE_MOVING value of the telegram written in that state, are true exactly
\* when the gate is Opening or Closing and false exactly when it is Sealed or
\* Open.
C12_MovingFlagMirrorsPhase ==
    /\ [](\A g \in Gates :
            /\ sensor_states[MovingKey(g)] <=> Phase(g) \in {"Opening", "Closing"}
            /\ TelegramValue(Message(sensor_states, gate), MovingKey(g)) = "1"
                   <=> Phase(g) \in {"Opening", "Closing"}
            /\ TelegramValue(Message(sensor_states, gate), MovingKey(g)) = "0"
                   <=> Phase(g) \in {"Sealed", "Open"})
    /\ [][sent' # sent =>
            \A g \in Gates :
                TelegramValue(sent', MovingKey(g)) = "1"
                    <=> (Phase(g) \in {"Opening", "Closing"})']_vars

\* a telegram written while gate A is closing and gate B rests Sealed
C12_Witness ==
    /\ Closing("A") /\ gate["A"].animation_progress = 12 /\ Phase("B") = "Sealed"
    /\ sent = Message(sensor_states, gate)
    /\ TelegramValue(sent, "GATE_MOVING_A") = "1"
    /\ TelegramValue(sent, "GATE_MOVING_B") = "0"

-----------------------------------------------------------------------------
(* Telegram round trip.                                                     *)

\* every sensor snapshot, and the telegram send_data writes for it: the five
\* geometric values from sensor_states, the two moving values from the gates
Snapshots == [SensorKeys -> BOOLEAN]
Encoded(snap) ==
    Message(snap, [g \in Gates |-> [InitGate EXCEPT !.moving = snap[MovingKey(g)]]])

\* C13: for any sensor snapshot, decoding the telegram that encodes it recovers
\* the same boolean value for every key: the decoder's loop, given the outbound
\* keys as the table of keys it stores and the opposite value stored for each,
\* ends with the snapshot and raises nothing; given its own table, the two
\* GATE_REQUEST keys, it finds no key of its own, stores nothing and raises
\* nothing.
C13_TelegramRoundTrip ==
    /\ \A snap \in Snapshots :
          /\ DecodeLine(Encoded(snap), [k \in SensorKeys |-> ~snap[k]])
                = [requests |-> snap, process |-> TRUE, exc |-> "none"]
          /\ DecodeLine(Encoded(snap), gate_requests)
                = [requests |-> gate_requests, process |-> TRUE, exc |-> "none"]
    /\ sent # <<>> => \E snap \in Snapshots : sent = Encoded(snap)

\* a telegram on the wire that carries both values, written with the rover on
\* the back sensor line, and a link that can deliver lines
C13_Witness ==
    /\ CanRead
    /\ rover_x = 686 * Px /\ sensor_states["PRESENCE_BACK"] /\ ~sensor_states["GATE_SAFETY_B"]
    /\ sent = Encoded(sensor_states)

-----------------------------------------------------------------------------
(* Sensor derivation.                                                       *)

\* the zones, left edge and width, and the presence key of each
Zones == {"front", "middle", "back"}
ZoneLeft(z) ==
    CASE z = "front" -> start_x
      [] z = "middle" -> start_x + front_zone_width
      [] z = "back" -> start_x + front_zone_width + middle_zone_width
ZoneWidth(z) ==
    CASE z = "front" -> front_zone_width
      [] z = "middle" -> middle_zone_width
      [] z = "back" -> back_zone_width
PresenceKey(z) ==
    CASE z = "front" -> "PRESENCE_FRONT"
      [] z = "middle" -> "PRESENCE_MIDDLE"
      [] z = "back" -> "PRESENCE_BACK"

\* twice the horizontal centre of a zone, twice the position of a gate
TwiceCentre(z) == 2 * ZoneLeft(z) + ZoneWidth(z)
TwiceGateX(g) == 2 * (start_x + gate_x(g))

\* the sensor line lies in the closed interval [x - width/2, x + width/2]
LineInRover(z, x) ==
    /\ 2 * x - rover_width <= TwiceCentre(z)
    /\ TwiceCentre(z) <= 2 * x + rover_width

\* the positions, in tenths of a pixel, at which a rover edge meets a sensor
\* line or an edge of a safety zone, and the positions a tenth to either side
EdgeXs ==
    { (TwiceCentre(z) + s * rover_width) \div 2 + d :
          z \in Zones, s \in {-1, 1}, d \in {-1, 0, 1} }
    \cup { (TwiceGateX(g) + s * rover_width + t * safety_zone_width) \div 2 + d :
          g \in Gates, s \in {-1, 1}, t \in {-1, 1}, d \in {-1, 0, 1} }

\* C14: for every rover position x and each zone, the zone's presence sensor
\* after the sensor update is true if and only if the zone's sensor line, the
\* horizontal centre of the zone, lies in [x - width/2, x + width/2]; both ends
\* of the interval are inclusive.
C14_PresenceDerivation ==
    /\ \A z \in Zones : sensor_states[PresenceKey(z)] <=> LineInRover(z, rover_x)
    /\ \A x \in EdgeXs \cup SensorXs : \A z \in Zones :
          UpdateSensors(sensor_states, x)[PresenceKey(z)] <=> LineInRover(z, x)
    /\ \A z \in Zones : \A s \in {-1, 1} :
          LET edge == (TwiceCentre(z) + s * rover_width) \div 2
          IN  /\ UpdateSensors(sensor_states, edge)[PresenceKey(z)]
              /\ ~UpdateSensors(sensor_states, edge + s)[PresenceKey(z)]

\* the rover was moved to the first whole pixel at which its right edge is
\* past the front sensor line; a pixel to the left the sensor is off
C14_Witness ==
    /\ rover_x = 139 * Px
    /\ sensor_states["PRESENCE_FRONT"]
    /\ ~sensor_states["PRESENCE_MIDDLE"] /\ ~sensor_states["GATE_SAFETY_A"]
    /\ ~UpdateSensors(sensor_states, 138 * Px)["PRESENCE_FRONT"]

\* twice the edges of the safety interval of a gate, half-width 30 pixels
SafetyHalfWidth == 30 * Px
StrictOverlap(g, x) ==
    /\ 2 * x + rover_width > TwiceGateX(g) - 2 * SafetyHalfWidth
    /\ 2 * x - rover_width < TwiceGateX(g) + 2 * SafetyHalfWidth

\* C15: for every rover position x and each gate, the gate's safety sensor
\* after the sensor update is true if and only if rover.right > gateX - 30 and
\* rover.left < gateX + 30; a rover whose edge exactly touches an edge of the
\* safety interval yields false, a rover that covers the interval yields true,
\* a rover apart from it yields false.
C15_SafetyOverlapDerivation ==
    /\ \A g \in Gates : sensor_states[SafetyKey(g)] <=> StrictOverlap(g, rover_x)
    /\ \A x \in EdgeXs \cup SensorXs : \A g \in Gates :
          UpdateSensors(sensor_states, x)[SafetyKey(g)] <=> StrictOverlap(g, x)
    /\ \A g \in Gates :
          LET gateX == start_x + gate_x(g)
              touchLeft == gateX - SafetyHalfWidth - rover_width \div 2
              touchRight == gateX + SafetyHalfWidth + rover_width \div 2
          IN  /\ ~UpdateSensors(sensor_states, touchLeft)[SafetyKey(g)]
              /\ ~UpdateSensors(sensor_states, touchRight)[SafetyKey(g)]
              /\ UpdateSensors(sensor_states, touchLeft + 1)[SafetyKey(g)]
              /\ UpdateSensors(sensor_states, touchRight - 1)[SafetyKey(g)]
              /\ UpdateSensors(sensor_states, gateX)[SafetyKey(g)]
              /\ ~UpdateSensors(sensor_states, touchLeft - 100 * Px)[SafetyKey(g)]
              /\ ~UpdateSensors(sensor_states, touchRight + 100 * Px)[SafetyKey(g)]

\* the rover was moved to the last whole pixel at which its left edge is still
\* inside the safety zone of gate A; a pixel to the right the sensor is off
C15_Witness ==
    /\ rover_x = 397 * Px
    /\ sensor_states["GATE_SAFETY_A"] /\ ~sensor_states["GATE_SAFETY_B"]
    /\ ~UpdateSensors(sensor_states, 398 * Px)["GATE_SAFETY_A"]

-----------------------------------------------------------------------------
(* Gate motion and the link.                                                *)

\* a gate record at rest
AtRest(st) == ~st.moving /\ st.animation_time = 0 /\ st.animation_progress \in {0, One}

\* the ticks a moving gate has left: the units of progress to the end of its
\* run, and one tick where it already stands at that end
TicksLeft(st) ==
    LET d == IF st.target_state THEN One - st.animation_progress ELSE st.animation_progress
    IN  IF d = 0 THEN 1 ELSE d

\* C16: disconnecting leaves every gate's phase, progress, target direction and
\* elapsed time unchanged; a gate that is moving while the link is down moves
\* on by one tick's delta on every tick and reaches Open (when opening) or
\* Sealed (when closing) by ticks alone, within the ticks of one full run.
C16_MotionIndependentOfLink ==
    /\ [][Disconnect => gate' = gate]_vars
    /\ [][(Tick /\ ~connected) =>
            \A g \in Gates :
                gate[g].moving =>
                    \/ /\ gate'[g].moving
                       /\ gate'[g].target_state = gate[g].target_state
                       /\ gate'[g].animation_progress
                             = gate[g].animation_progress
                                   + (IF gate[g].target_state THEN 1 ELSE -1)
                    \/ /\ AtRest(gate'[g])
                       /\ gate'[g].open = gate[g].target_state]_vars
    /\ [](~connected =>
            \A g \in Gates :
                gate[g].moving =>
                    LET n == TicksLeft(gate[g])
                        last == TickN(g, gate[g], sensor_states, n - 1)
                        end == AnimateGate(g, last, sensor_states)
                    IN  /\ n \in 1..One
                        /\ last.moving
                        /\ AtRest(end)
                        /\ end.open = gate[g].target_state)

\* the link was opened and closed again; gate A, asked to open over it, is on
\* its way and gate B, reversed, is closing
C16_Witness ==
    /\ ~connected /\ ~ser /\ sessions = 1
    /\ Opening("A") /\ gate["A"].animation_progress = 7
    /\ Closing("B") /\ ~gate["B"].open /\ gate["B"].animation_progress = 2

-----------------------------------------------------------------------------
(* Interlock release.                                                       *)

\* C20: a gate that is Closing with its safety sensor true holds its progress
\* over a tick; once the rover is clear, each tick decreases progress by one
\* tick's delta from the value held, and the gate is Sealed after as many ticks
\* as that value has units.
C20_InterlockRelease ==
    \A g \in Gates :
        (Closing(g) /\ sensor_states[SafetyKey(g)] /\ gate[g].animation_progress >= 1) =>
            LET p == gate[g].animation_progress
                held == AnimateGate(g, gate[g], sensor_states)
                clear == WithSafety(FALSE, FALSE)
            IN  /\ held.animation_progress = p
                /\ \A k \in 1..(p - 1) :
                      LET s == TickN(g, held, clear, k) IN
                      s.moving /\ ~s.target_state /\ s.animation_progress = p - k
                /\ ~TickN(g, held, clear, p).moving
                /\ ~TickN(g, held, clear, p).open
                /\ TickN(g, held, clear, p).animation_progress = 0

-----------------------------------------------------------------------------
(* The handlers statement by statement.  The threads of the program run     *)
(* side by side and no lock guards the fields they share, so a thread can   *)
(* be overtaken between any two of its statements.  Each step below is one  *)
(* statement, or one test, of a handler.                                    *)

\* sessions, lines and positions of the statement-level specifications
MaxLinkSessions == 2
MaxRaceLines == 2
SnapshotXs == {202 * Px, 686 * Px}

\* the keys update_sensors assigns, in the order of its assignments
GeoOrder == <<"PRESENCE_FRONT", "PRESENCE_MIDDLE", "PRESENCE_BACK",
              "GATE_SAFETY_A", "GATE_SAFETY_B">>

\* on_canvas_drag: self.rover_x = new_x, and update_sensors up to its first
\* assignment (rover_left, rover_right and the sensor lines are locals)
DragBegin(x) ==
    /\ main_pc = MainAt("idle")
    /\ rover_x' = x
    /\ main_pc' = [at |-> "update", i |-> 1]
    /\ UNCHANGED <<ser, connected, sensor_states, gate_requests, gate, read_thread,
                   lines_read, sessions, sent, port_open, send, anim, proc>>

\* update_sensors: the next of its five assignments to sensor_states
UpdateAssign ==
    /\ main_pc.at = "update"
    /\ LET k == GeoOrder[main_pc.i]
       IN  sensor_states' = [sensor_states EXCEPT ![k] = UpdateSensors(sensor_states, rover_x)[k]]
    /\ main_pc' = IF main_pc.i = Len(GeoOrder) THEN MainAt("idle")
                  ELSE [main_pc EXCEPT !.i = main_pc.i + 1]
    /\ UNCHANGED <<ser, connected, rover_x, gate_requests, gate, read_thread,
                   lines_read, sessions, sent, port_open, send, anim, proc>>

\* sensor_update_loop: if self.connected
SendLoopTest ==
    /\ send.pc = "idle"
    /\ connected
    /\ send' = [send EXCEPT !.pc = "check"]
    /\ UNCHANGED <<ser, connected, rover_x, sensor_states, gate_requests, gate, read_thread,
                   lines_read, sessions, sent, port_open, main_pc, anim, proc>>

\* send_data: if not self.connected or not self.ser: return
SendCheck ==
    /\ send.pc = "check"
    /\ send' = IF ~connected \/ ~ser THEN SendIdle
               ELSE [pc |-> "read", i |-> 1, parts |-> <<>>]
    /\ UNCHANGED <<ser, connected, rover_x, sensor_states, gate_requests, gate, read_thread,
                   lines_read, sessions, sent, port_open, main_pc, anim, proc>>

\* send_data: one turn of the loop over sensor_states.items()
SendRead ==
    /\ send.pc = "read"
    /\ LET name == SensorOrder[send.i]
           parts == IF name \in {"GATE_MOVING_A", "GATE_MOVING_B"} THEN send.parts
                    ELSE Append(send.parts, Part(name, sensor_states[name]))
       IN  send' = IF send.i = Len(SensorOrder)
                   THEN [pc |-> "moving", i |-> 0, parts |-> parts]
                   ELSE [pc |-> "read", i |-> send.i + 1, parts |-> parts]
    /\ UNCHANGED <<ser, connected, rover_x, sensor_states, gate_requests, gate, read_thread,
                   lines_read, sessions, sent, port_open, main_pc, anim, proc>>

\* send_data: the two parts from gate_a_moving and gate_b_moving
SendMoving ==
    /\ send.pc = "moving"
    /\ send' = [send EXCEPT !.pc = "write",
                            !.parts = send.parts \o <<Part("GATE_MOVING_A", gate["A"].moving),
                                                     Part("GATE_MOVING_B", gate["B"].moving)>>]
    /\ UNCHANGED <<ser, connected, rover_x, sensor_states, gate_requests, gate, read_thread,
                   lines_read, sessions, sent, port_open, main_pc, anim, proc>>

\* send_data: self.ser.write(message.encode()).  With self.ser None the call
\* raises AttributeError, which nothing catches: the thread ends.  On a closed
\* port write raises serial.SerialException, which send_data catches.
SendWrite ==
    /\ send.pc = "write"
    /\ IF ~ser
       THEN send' = [send EXCEPT !.pc = "AttributeError"] /\ sent' = sent
       ELSE IF ~port_open
            THEN send' = SendIdle /\ sent' = sent
            ELSE send' = SendIdle /\ sent' = <<"<">> \o Join(send.parts, ",") \o <<">">>
    /\ UNCHANGED <<ser, connected, rover_x, sensor_states, gate_requests, gate, read_thread,
                   lines_read, sessions, port_open, main_pc, anim, proc>>

\* the telemetry thread puts a message on the wire
SendWrites == send.pc = "write" /\ ser /\ port_open /\ SendWrite

\* a drag next to the telemetry loop, statement by statement
NextSnapshot ==
    \/ Connect
    \/ \E x \in SnapshotXs : DragBegin(x)
    \/ UpdateAssign
    \/ SendLoopTest
    \/ SendCheck
    \/ SendRead
    \/ SendMoving
    \/ SendWrite

SpecSnapshot == Init /\ [][NextSnapshot]_vars

\* connect_serial: self.ser = serial.Serial(port, 115200, timeout=1)
ConnectOpen ==
    /\ main_pc = MainAt("idle")
    /\ ~connected
    /\ sessions < MaxLinkSessions
    /\ ser' = TRUE
    /\ port_open' = TRUE
    /\ sessions' = sessions + 1
    /\ main_pc' = MainAt("connect_flag")
    /\ UNCHANGED <<connected, rover_x, sensor_states, gate_requests, gate, read_thread,
                   lines_read, sent, send, anim, proc>>

\* connect_serial: time.sleep(2), then self.connected = True
ConnectFlag ==
    /\ main_pc = MainAt("connect_flag")
    /\ connected' = TRUE
    /\ main_pc' = MainAt("connect_send")
    /\ UNCHANGED <<ser, rover_x, sensor_states, gate_requests, gate, read_thread,
                   lines_read, sessions, sent, port_open, send, anim, proc>>

\* connect_serial: its send_data()
ConnectSend ==
    /\ main_pc = MainAt("connect_send")
    /\ sent' = Message(sensor_states, gate)
    /\ main_pc' = MainAt("idle")
    /\ UNCHANGED <<ser, connected, rover_x, sensor_states, gate_requests, gate, read_thread,
                   lines_read, sessions, port_open, send, anim, proc>>

\* disconnect_serial: if self.ser: self.ser.close()
DisconnectClose ==
    /\ main_pc = MainAt("idle")
    /\ connected
    /\ port_open' = IF ser THEN FALSE ELSE port_open
    /\ main_pc' = IF ser THEN MainAt("disconnect_ser") ELSE MainAt("disconnect_flag")
    /\ UNCHANGED <<ser, connected, rover_x, sensor_states, gate_requests, gate, read_thread,
                   lines_read, sessions, sent, send, anim, proc>>

\* disconnect_serial: self.ser = None
DisconnectSer ==
    /\ main_pc = MainAt("disconnect_ser")
    /\ ser' = FALSE
    /\ main_pc' = MainAt("disconnect_flag")
    /\ UNCHANGED <<connected, rover_x, sensor_states, gate_requests, gate, read_thread,
                   lines_read, sessions, sent, port_open, send, anim, proc>>

\* disconnect_serial: self.connected = False
DisconnectFlag ==
    /\ main_pc = MainAt("disconnect_flag")
    /\ connected' = FALSE
    /\ main_pc' = MainAt("idle")
    /\ UNCHANGED <<ser, rover_x, sensor_states, gate_requests, gate, read_thread,
                   lines_read, sessions, sent, port_open, send, anim, proc>>

\* the link button next to the telemetry loop, statement by statement
NextLink ==
    \/ ConnectOpen
    \/ ConnectFlag
    \/ ConnectSend
    \/ DisconnectClose
    \/ DisconnectSer
    \/ DisconnectFlag
    \/ SendLoopTest
    \/ SendCheck
    \/ SendRead
    \/ SendMoving
    \/ SendWrite

SpecLink == Init /\ [][NextLink]_vars

\* read_arduino_data: if not self.connected or not self.ser: return.  The
\* thread that has passed the test is at "polling".
ReadCheck ==
    /\ read_thread = "running"
    /\ connected /\ ser
    /\ read_thread' = "polling"
    /\ UNCHANGED <<ser, connected, rover_x, sensor_states, gate_requests, gate,
                   lines_read, sessions, sent, port_open, steps>>

\* read_arduino_data: if self.ser.in_waiting > 0, with no line waiting.  With
\* self.ser None the attribute access raises AttributeError, which nothing
\* catches: the thread ends.  On a closed port the read is taken to fail with
\* serial.SerialException, which is caught.
ReadPoll ==
    /\ read_thread = "polling"
    /\ read_thread' = IF ~ser THEN "AttributeError" ELSE "running"
    /\ UNCHANGED <<ser, connected, rover_x, sensor_states, gate_requests, gate,
                   lines_read, sessions, sent, port_open, steps>>

\* the link button next to the read loop and the telemetry loop
NextTasks ==
    \/ ConnectOpen
    \/ ConnectFlag
    \/ ConnectSend
    \/ DisconnectClose
    \/ DisconnectSer
    \/ DisconnectFlag
    \/ SendLoopTest
    \/ SendCheck
    \/ SendRead
    \/ SendMoving
    \/ SendWrite
    \/ ReadCheck
    \/ ReadPoll

SpecTasks == Init /\ [][NextTasks]_vars

-----------------------------------------------------------------------------
(* Telemetry and the link.                                                  *)

\* C17: no telegram is written to the transport in a state where the session
\* is not connected; after a disconnect has completed none is written until a
\* later connect has succeeded.
C17_TelemetryOnlyWhileConnected == [][SendWrites => connected]_vars

-----------------------------------------------------------------------------
(* Telemetry and the rover.                                                 *)

\* the five geometric values for every whole-pixel position of the rover on
\* the canvas and beside it
GeoKeys == {"PRESENCE_FRONT", "PRESENCE_MIDDLE", "PRESENCE_BACK",
            "GATE_SAFETY_A", "GATE_SAFETY_B"}
GeoValues(x) ==
    [k \in GeoKeys |-> Bit(UpdateSensors([n \in SensorKeys |-> FALSE], x)[k])]
PositionValues == { GeoValues(px * Px) : px \in -100..1000 }

\* C19: the five geometric sensor values of any one transmitted telegram are
\* all derived from a single rover position.
C19_NoHalfUpdatedSnapshot ==
    sent # <<>> => [k \in GeoKeys |-> TelegramValue(sent, k)] \in PositionValues

-----------------------------------------------------------------------------
(* process_gate_requests and animate_gates statement by statement.          *)

\* the gate after g in the order the handlers take them, "none" after the last
NextGate(g) == IF g = "A" THEN "B" ELSE "none"

\* the request telegrams for gate A
RaceLines == { Telegram(KV("GATE_REQUEST_A", <<v>>)) : v \in {"0", "1"} }

\* read_arduino_data up to the call of process_gate_requests: the line is
\* decoded and gate_requests updated
ReadBegin(raw) ==
    /\ CanRead
    /\ proc.pc = "idle"
    /\ lines_read < MaxRaceLines
    /\ LET d == DecodeLine(raw, gate_requests)
       IN  /\ gate_requests' = d.requests
           /\ read_thread' = IF d.exc = "none" THEN "running" ELSE d.exc
           /\ proc' = IF d.process THEN [proc EXCEPT !.pc = "request", !.g = "A"] ELSE proc
    /\ lines_read' = lines_read + 1
    /\ UNCHANGED <<ser, connected, rover_x, sensor_states, gate, sessions, sent, port_open,
                   main_pc, send, anim>>

\* process_gate_requests is through with gate proc.g: the request it acted on
\* is the most recently processed request of that gate
ProcDone ==
    [proc EXCEPT !.pc = IF NextGate(proc.g) = "none" THEN "idle" ELSE "request",
                 !.g = IF NextGate(proc.g) = "none" THEN "A" ELSE NextGate(proc.g),
                 !.processed[proc.g] = proc.request]

\* if self.gate_requests['GATE_REQUEST_X']
ProcTestRequest ==
    /\ proc.pc = "request"
    /\ proc' = [proc EXCEPT !.pc = "moving", !.request = gate_requests[RequestKey(proc.g)]]
    /\ UNCHANGED <<ser, connected, rover_x, sensor_states, gate_requests, gate, read_thread,
                   lines_read, sessions, sent, port_open, main_pc, send, anim>>

\* if not self.gate_X_moving
ProcTestMoving ==
    /\ proc.pc = "moving"
    /\ proc' = [proc EXCEPT !.pc = IF gate[proc.g].moving THEN "target" ELSE "open"]
    /\ UNCHANGED <<ser, connected, rover_x, sensor_states, gate_requests, gate, read_thread,
                   lines_read, sessions, sent, port_open, main_pc, send, anim>>

\* the gate rests: if not self.gate_X_open (request 1), if self.gate_X_open
\* (request 0)
ProcTestOpen ==
    /\ proc.pc = "open"
    /\ proc' = IF gate[proc.g].open # proc.request
               THEN [proc EXCEPT !.pc = "set_target", !.start = TRUE]
               ELSE ProcDone
    /\ UNCHANGED <<ser, connected, rover_x, sensor_states, gate_requests, gate, read_thread,
                   lines_read, sessions, sent, port_open, main_pc, send, anim>>

\* the gate moves: if not self.gate_X_target_state (request 1), if
\* self.gate_X_target_state (request 0)
ProcTestTarget ==
    /\ proc.pc = "target"
    /\ proc' = IF gate[proc.g].target_state # proc.request
               THEN [proc EXCEPT !.pc = "set_target", !.start = FALSE]
               ELSE ProcDone
    /\ UNCHANGED <<ser, connected, rover_x, sensor_states, gate_requests, gate, read_thread,
                   lines_read, sessions, sent, port_open, main_pc, send, anim>>

\* self.gate_X_target_state = True (request 1), False (request 0)
ProcSetTarget ==
    /\ proc.pc = "set_target"
    /\ gate' = [gate EXCEPT ![proc.g].target_state = proc.request]
    /\ proc' = [proc EXCEPT !.pc = IF proc.start THEN "set_moving" ELSE "set_time"]
    /\ UNCHANGED <<ser, connected, rover_x, sensor_states, gate_requests, read_thread,
                   lines_read, sessions, sent, port_open, main_pc, send, anim>>

\* self.gate_X_moving = True
ProcSetMoving ==
    /\ proc.pc = "set_moving"
    /\ gate' = [gate EXCEPT ![proc.g].moving = TRUE]
    /\ proc' = [proc EXCEPT !.pc = "set_time"]
    /\ UNCHANGED <<ser, connected, rover_x, sensor_states, gate_requests, read_thread,
                   lines_read, sessions, sent, port_open, main_pc, send, anim>>

\* self.gate_X_animation_time = progress * duration (request 1),
\* (1.0 - progress) * duration (request 0)
ProcSetTime ==
    /\ proc.pc = "set_time"
    /\ gate' = [gate EXCEPT ![proc.g].animation_time =
                   IF proc.request THEN OpeningTime(gate[proc.g]) ELSE ClosingTime(gate[proc.g])]
    /\ proc' = IF proc.start THEN [proc EXCEPT !.pc = "set_flag"] ELSE ProcDone
    /\ UNCHANGED <<ser, connected, rover_x, sensor_states, gate_requests, read_thread,
                   lines_read, sessions, sent, port_open, main_pc, send, anim>>

\* self.sensor_states['GATE_MOVING_X'] = True
ProcSetFlag ==
    /\ proc.pc = "set_flag"
    /\ sensor_states' = [sensor_states EXCEPT ![MovingKey(proc.g)] = TRUE]
    /\ proc' = ProcDone
    /\ UNCHANGED <<ser, connected, rover_x, gate_requests, gate, read_thread,
                   lines_read, sessions, sent, port_open, main_pc, send, anim>>

\* animate_gates is through with gate anim.g
AnimDone ==
    IF NextGate(anim.g) = "none" THEN AnimIdle
    ELSE [pc |-> "moving", g |-> NextGate(anim.g), opening |-> FALSE, progress |-> 0]

\* animation_loop calls animate_gates
AnimBegin ==
    /\ anim.pc = "idle"
    /\ anim' = [anim EXCEPT !.pc = "moving", !.g = "A"]
    /\ UNCHANGED <<ser, connected, rover_x, sensor_states, gate_requests, gate, read_thread,
                   lines_read, sessions, sent, port_open, main_pc, send, proc>>

\* if self.gate_X_moving
AnimTestMoving ==
    /\ anim.pc = "moving"
    /\ anim' = IF gate[anim.g].moving THEN [anim EXCEPT !.pc = "target"] ELSE AnimDone
    /\ UNCHANGED <<ser, connected, rover_x, sensor_states, gate_requests, gate, read_thread,
                   lines_read, sessions, sent, port_open, main_pc, send, proc>>

\* if self.gate_X_target_state; in the closing branch, if not safety_triggered
AnimTestTarget ==
    /\ anim.pc = "target"
    /\ anim' = IF ~gate[anim.g].target_state /\ safety_triggered(anim.g, sensor_states)
               THEN AnimDone
               ELSE [anim EXCEPT !.pc = "time", !.opening = gate[anim.g].target_state]
    /\ UNCHANGED <<ser, connected, rover_x, sensor_states, gate_requests, gate, read_thread,
                   lines_read, sessions, sent, port_open, main_pc, send, proc>>

\* self.gate_X_animation_time += dt
AnimTime ==
    /\ anim.pc = "time"
    /\ gate' = [gate EXCEPT ![anim.g].animation_time = gate[anim.g].animation_time + Dt]
    /\ anim' = [anim EXCEPT !.pc = "progress"]
    /\ UNCHANGED <<ser, connected, rover_x, sensor_states, gate_requests, read_thread,
                   lines_read, sessions, sent, port_open, main_pc, send, proc>>

\* progress = min(self.gate_X_animation_time / self.gate_animation_duration, 1.0)
AnimProgress ==
    /\ anim.pc = "progress"
    /\ anim' = [anim EXCEPT !.pc = "store", !.progress = ProgressAt(gate[anim.g].animation_time)]
    /\ UNCHANGED <<ser, connected, rover_x, sensor_states, gate_requests, gate, read_thread,
                   lines_read, sessions, sent, port_open, main_pc, send, proc>>

\* self.gate_animation_progress_X = progress (opening), 1.0 - progress
\* (closing), and the test if progress >= 1.0
AnimStore ==
    /\ anim.pc = "store"
    /\ gate' = [gate EXCEPT ![anim.g].animation_progress =
                   IF anim.opening THEN anim.progress ELSE One - anim.progress]
    /\ anim' = IF Finished(anim.progress) THEN [anim EXCEPT !.pc = "end_progress"] ELSE AnimDone
    /\ UNCHANGED <<ser, connected, rover_x, sensor_states, gate_requests, read_thread,
                   lines_read, sessions, sent, port_open, main_pc, send, proc>>

\* self.gate_animation_progress_X = 1.0 (opening), 0.0 (closing)
AnimEndProgress ==
    /\ anim.pc = "end_progress"
    /\ gate' = [gate EXCEPT ![anim.g].animation_progress = IF anim.opening THEN One ELSE 0]
    /\ anim' = [anim EXCEPT !.pc = "end_open"]
    /\ UNCHANGED <<ser, connected, rover_x, sensor_states, gate_requests, read_thread,
                   lines_read, sessions, sent, port_open, main_pc, send, proc>>

\* self.gate_X_open = True (opening), False (closing)
AnimEndOpen ==
    /\ anim.pc = "end_open"
    /\ gate' = [gate EXCEPT ![anim.g].open = anim.opening]
    /\ anim' = [anim EXCEPT !.pc = "end_moving"]
    /\ UNCHANGED <<ser, connected, rover_x, sensor_states, gate_requests, read_thread,
                   lines_read, sessions, sent, port_open, main_pc, send, proc>>

\* self.gate_X_moving = False
AnimEndMoving ==
    /\ anim.pc = "end_moving"
    /\ gate' = [gate EXCEPT ![anim.g].moving = FALSE]
    /\ anim' = [anim EXCEPT !.pc = "end_time"]
    /\ UNCHANGED <<ser, connected, rover_x, sensor_states, gate_requests, read_thread,
                   lines_read, sessions, sent, port_open, main_pc, send, proc>>

\* self.gate_X_animation_time = 0
AnimEndTime ==
    /\ anim.pc = "end_time"
    /\ gate' = [gate EXCEPT ![anim.g].animation_time = 0]
    /\ anim' = [anim EXCEPT !.pc = "end_flag"]
    /\ UNCHANGED <<ser, connected, rover_x, sensor_states, gate_requests, read_thread,
                   lines_read, sessions, sent, port_open, main_pc, send, proc>>

\* self.sensor_states['GATE_MOVING_X'] = False
AnimEndFlag ==
    /\ anim.pc = "end_flag"
    /\ sensor_states' = [sensor_states EXCEPT ![MovingKey(anim.g)] = FALSE]
    /\ anim' = AnimDone
    /\ UNCHANGED <<ser, connected, rover_x, gate_requests, gate, read_thread,
                   lines_read, sessions, sent, port_open, main_pc, send, proc>>

\* the read loop next to the animation loop, statement by statement
NextRace ==
    \/ Connect
    \/ \E raw \in RaceLines : ReadBegin(raw)
    \/ ProcTestRequest
    \/ ProcTestMoving
    \/ ProcTestOpen
    \/ ProcTestTarget
    \/ ProcSetTarget
    \/ ProcSetMoving
    \/ ProcSetTime
    \/ ProcSetFlag
    \/ AnimBegin
    \/ AnimTestMoving
    \/ AnimTestTarget
    \/ AnimTime
    \/ AnimProgress
    \/ AnimStore
    \/ AnimEndProgress
    \/ AnimEndOpen
    \/ AnimEndMoving
    \/ AnimEndTime
    \/ AnimEndFlag

SpecRace == Init /\ [][NextRace]_vars

-----------------------------------------------------------------------------
(* Requests and ticks side by side.                                         *)

\* C18: a gate never stops moving in the phase opposite to the most recently
\* processed request for it: where a gate's moving flag goes from true to
\* false, the gate is Open if that request was to open and Sealed if it was
\* to close.
C18_LatestRequestWins ==
    [][\A g \in Gates :
          (gate[g].moving /\ ~gate'[g].moving) => gate'[g].open = proc.processed[g]]_vars

-----------------------------------------------------------------------------
(* Progress of a moving gate.                                               *)

\* C21 as stated: a gate that is Opening or Closing has 0 < progress < 1, in
\* particular right after request(open) on a Sealed gate and after
\* request(close) on an Open gate.
C21_MovingPhaseStrictness ==
    \A g \in Gates :
        gate[g].moving =>
            0 < gate[g].animation_progress /\ gate[g].animation_progress < One

\* C21, amended: a gate that is Opening or Closing has 0 <= progress <= 1; it
\* has progress 0 or 1 only while no tick has moved it since it left rest
\* (elapsed is then 0 or the full duration), and after every tick that leaves
\* it moving 0 < progress < 1.
C21_MovingPhaseBounds ==
    /\ [](\A g \in Gates :
            gate[g].moving =>
                /\ 0 <= gate[g].animation_progress
                /\ gate[g].animation_progress <= One
                /\ gate[g].animation_progress \in {0, One}
                       => gate[g].animation_time \in {0, Duration})
    /\ [][Tick =>
            \A g \in Gates :
                gate'[g].moving =>
                    0 < gate'[g].animation_progress /\ gate'[g].animation_progress < One]_vars

\* gate A right after request(open) on Sealed, gate B right after
\* request(close) on Open: no tick since
C21_Witness ==
    /\ Opening("A") /\ gate["A"].animation_progress = 0 /\ gate["A"].animation_time = 0
    /\ Closing("B") /\ gate["B"].animation_progress = One /\ gate["B"].animation_time = 0

-----------------------------------------------------------------------------
(* The phase transition relation.                                           *)

\* a line was read in this step
LineStep == lines_read' = lines_read + 1

\* the phase changes of a gate: from, to, and what makes them
PhaseChangeAllowed(g) ==
    LET from == Phase(g)
        to == Phase(g)'
        open == gate_requests'[RequestKey(g)]
    IN  \/ /\ from = "Sealed" /\ to = "Opening"
           /\ LineStep /\ open /\ gate'[g].animation_time = 0
        \/ /\ from = "Opening" /\ to = "Open"
           /\ Tick /\ gate'[g].animation_progress = One
        \/ /\ from = "Open" /\ to = "Closing"
           /\ LineStep /\ ~open /\ gate'[g].animation_time = 0
        \/ /\ from = "Closing" /\ to = "Sealed"
           /\ Tick /\ gate'[g].animation_progress = 0
        \/ /\ from = "Opening" /\ to = "Closing"
           /\ LineStep /\ ~open
        \/ /\ from = "Closing" /\ to = "Opening"
           /\ LineStep /\ open

\* C22: both gates start Sealed; the only phase changes are Sealed -> Opening
\* (request open), Opening -> Open (tick reaching progress 1), Open -> Closing
\* (request close), Closing -> Sealed (tick reaching progress 0) and the
\* reversals Opening -> Closing and Closing -> Opening (opposing request); a
\* request that starts an idle gate sets elapsed to 0; no step goes directly
\* between Sealed and Open.
C22_PhaseTransitionRelation ==
    /\ \A g \in Gates : Phase(g) = "Sealed"
    /\ [][\A g \in Gates : Phase(g)' # Phase(g) => PhaseChangeAllowed(g)]_vars

\* both gates have been through a change of phase: gate A was opened and is
\* closing, gate B, reversed while opening, is closing too
C22_Witness ==
    /\ Closing("A") /\ gate["A"].open /\ gate["A"].animation_progress = 28
    /\ Closing("B") /\ ~gate["B"].open /\ gate["B"].animation_progress = 1

-----------------------------------------------------------------------------
(* Requests that change nothing.                                            *)

\* the telegram that asks gate g to open, to close
RequestLine(g, open) == Telegram(KV(RequestKey(g), <<Bit(open)>>))

\* C23: request(open) on a gate that is Open or Opening, and request(close) on
\* a gate that is Sealed or Closing, leave the gate's phase, progress, target
\* direction, elapsed time and moving flag unchanged.
C23_RequestNoOps ==
    \A g \in Gates : \A open \in BOOLEAN :
        Phase(g) \in (IF open THEN {"Open", "Opening"} ELSE {"Sealed", "Closing"}) =>
            /\ ProcessGate(gate[g], open) = gate[g]
            /\ CanRead =>
                  LET e == ReadEffect(RequestLine(g, open))
                  IN  /\ e.gate[g] = gate[g]
                      /\ e.sensor_states[MovingKey(g)] = sensor_states[MovingKey(g)]

\* gate A is on its way open and gate B on its way closed, both past their
\* first ticks, and a line can be read
C23_Witness ==
    /\ CanRead
    /\ Opening("A") /\ gate["A"].animation_progress = 9
    /\ Closing("B") /\ gate["B"].animation_progress = 21

-----------------------------------------------------------------------------
(* The snapshot and the rover.                                              *)

\* the five geometric sensors hold the values derived from position x
Derived(sens, x) ==
    /\ \A z \in Zones : sens[PresenceKey(z)] <=> LineInRover(z, x)
    /\ \A g \in Gates : sens[SafetyKey(g)] <=> StrictOverlap(g, x)

\* C24: starting with the initial state (rover at x = 50, all sensors false),
\* the three presence sensors and the two safety sensors of the snapshot equal
\* the values derived from the current rover position; every move of the rover
\* by drag or arrow key recomputes all five.
C24_SnapshotTracksRover ==
    /\ rover_x = 50 * Px /\ \A k \in SensorKeys : ~sensor_states[k]
    /\ [](Derived(sensor_states, rover_x))
    /\ [][rover_x' # rover_x =>
            /\ Derived(sensor_states', rover_x')
            /\ \A g \in Gates : sensor_states'[MovingKey(g)] = sensor_states[MovingKey(g)]]_vars

\* the arrow keys have walked the rover from astride gate B to the pixel where
\* its left edge has just left the safety zone and its right edge is on the
\* back sensor line's side
C24_Witness ==
    /\ rover_x = 678 * Px
    /\ ~sensor_states["GATE_SAFETY_B"] /\ sensor_states["PRESENCE_BACK"]
    /\ ~sensor_states["PRESENCE_MIDDLE"]

-----------------------------------------------------------------------------
(* Exclusion of the sensors by geometry.                                    *)

\* in snapshot sens at most one presence sensor and at most one safety sensor
\* is true
Exclusive(sens) ==
    /\ \A y, z \in Zones : sens[PresenceKey(y)] /\ sens[PresenceKey(z)] => y = z
    /\ ~(sens["GATE_SAFETY_A"] /\ sens["GATE_SAFETY_B"])

\* C30: with the configured geometry (rover width 127.6, sensor lines at 202,
\* 444 and 686, safety intervals of half-width 30 around 304 and 584), for
\* every rover position at most one of the three presence sensors is true and
\* the two gate safety sensors are never true together.
C30_SensorsExclusiveByGeometry ==
    /\ 10 * rover_width = 1276 * Px
    /\ <<front_sensor_x, middle_sensor_x, back_sensor_x>> = <<202 * Px, 444 * Px, 686 * Px>>
    /\ <<TwiceGateX("A"), TwiceGateX("B")>> = <<2 * 304 * Px, 2 * 584 * Px>>
    /\ SafetyHalfWidth = 30 * Px
    /\ Exclusive(sensor_states)
    /\ \A x \in EdgeXs \cup SensorXs : Exclusive(UpdateSensors(sensor_states, x))

\* the rover stands on the front sensor line and inside gate A's safety
\* interval: one presence sensor and one safety sensor are true together
C30_Witness ==
    /\ rover_x = 240 * Px
    /\ sensor_states["PRESENCE_FRONT"] /\ sensor_states["GATE_SAFETY_A"]
    /\ ~sensor_states["PRESENCE_MIDDLE"] /\ ~sensor_states["GATE_SAFETY_B"]

-----------------------------------------------------------------------------
(* Repeated keys in one telegram.                                           *)

\* a telegram of the pairs k:v for the values v of vs, in their order
RECURSIVE Repeated(_, _)
Repeated(k, vs) ==
    IF Len(vs) = 1 THEN KV(k, vs[1])
    ELSE KV(k, vs[1]) \o <<",">> \o Repeated(k, Tail(vs))

\* the values of the earlier occurrences, and of the last one
EarlierValues == {<<"0">>, <<"1">>}
LastValues == {<<"0">>, <<"1">>, <<>>, <<"x">>}

\* C25: when one inbound telegram holds the same recognized key more than
\* once, the gate receives a single request whose value is that of the last
\* occurrence: the telegram leaves the requests, both gates and the snapshot
\* as the telegram of the last occurrence alone does, so the earlier
\* occurrences cause no motion and no reversal.
C25_DuplicateKeysLastWins ==
    CanRead =>
        \A k \in RequestKeys : \A last \in LastValues :
            LET one == ReadEffect(Telegram(KV(k, last)))
            IN  /\ \A v \in EarlierValues :
                      ReadEffect(Telegram(Repeated(k, <<v, last>>))) = one
                /\ \A v, w \in EarlierValues :
                      ReadEffect(Telegram(Repeated(k, <<v, w, last>>))) = one

\* the read loop can take a telegram while gate A is opening and gate B is
\* closing: an earlier "0" for A or an earlier "1" for B would reverse a gate
C25_Witness ==
    /\ CanRead
    /\ Opening("A") /\ gate["A"].animation_progress = 3
    /\ Closing("B") /\ gate["B"].animation_progress = 1

-----------------------------------------------------------------------------
(* The frame of the rover position.                                         *)

\* C26: a tick and the processing of an inbound line never change the rover
\* position; the position changes only in a move of the rover (a drag or an
\* arrow key), which recomputes the snapshot and leaves the gates, the
\* requests and the read loop alone.
C26_RoverPoseFrame ==
    /\ [][Tick => rover_x' = rover_x]_vars
    /\ [][LineStep => rover_x' = rover_x]_vars
    /\ [][rover_x' # rover_x =>
            /\ MoveRover(rover_x')
            /\ ~LineStep
            /\ gate' = gate /\ gate_requests' = gate_requests]_vars

\* gate A is opening after a line and some ticks, and the arrow keys have
\* taken the rover one pixel to the left of where it started
C26_Witness ==
    /\ rover_x = 49 * Px
    /\ lines_read = 1
    /\ Opening("A") /\ gate["A"].animation_progress = 7

-----------------------------------------------------------------------------
(* The target and the stored request.                                       *)

\* gate g's target is its stored request, and at rest it is Open exactly if
\* that request is open
FollowsRequest(g) ==
    /\ gate[g].target_state = gate_requests[RequestKey(g)]
    /\ ~gate[g].moving => (gate[g].open <=> gate_requests[RequestKey(g)])

\* C27: with inbound lines and ticks each applied atomically, in every
\* reachable state each gate's target direction equals the stored value of its
\* latest request (initially close), and a gate that is not moving rests Open
\* if and only if that latest request is open.
C27_TargetFollowsRequest == \A g \in Gates : FollowsRequest(g)

\* the same for the states in which no line has ended the read loop
C27_WhileReadLoopRuns == read_thread = "running" => \A g \in Gates : FollowsRequest(g)

\* gate A has opened and rests Open; gate B is closing again
C27_Witness ==
    /\ read_thread = "running"
    /\ Phase("A") = "Open" /\ gate_requests["GATE_REQUEST_A"]
    /\ Closing("B") /\ gate["B"].animation_progress = 5

-----------------------------------------------------------------------------
(* The timer and the progress.                                              *)

\* C28: with inbound lines and ticks each applied atomically, in every
\* reachable state a gate that is Opening has elapsed = progress * duration, a
\* gate that is Closing has elapsed = (1 - progress) * duration, and a gate
\* that is not moving has elapsed = 0.  Progress is counted in units of 1/One,
\* so progress * duration is animation_progress * Duration / One.
C28_ElapsedProgressCoupling ==
    \A g \in Gates :
        /\ Opening(g) => One * gate[g].animation_time = gate[g].animation_progress * Duration
        /\ Closing(g) =>
              One * gate[g].animation_time = (One - gate[g].animation_progress) * Duration
        /\ ~gate[g].moving => gate[g].animation_time = 0

\* gate A was reversed while opening and is opening again, gate B is closing
\* from Open; both timers are off zero
C28_Witness ==
    /\ Opening("A") /\ gate["A"].animation_progress = 11 /\ gate["A"].animation_time = 11 * Dt
    /\ lines_read = 3
    /\ Closing("B") /\ gate["B"].animation_progress = 26 /\ gate["B"].animation_time = 4 * Dt

-----------------------------------------------------------------------------
(* The periodic tasks and a disconnect.                                     *)

\* C29: in every interleaving of disconnect (which clears the transport
\* handle before it clears the connected flag) with the read task and the
\* telemetry task, neither task ends with an unhandled error.
C29_TasksSurviveDisconnect ==
    /\ send.pc # "AttributeError"
    /\ read_thread \in {"running", "polling"}

\* the telemetry task alone
C29_TelemetryTaskSurvives == send.pc # "AttributeError"

\* the read task alone
C29_ReadTaskSurvives == read_thread \in {"running", "polling"}

\* after a reconnect has succeeded both tasks are dead: no telegram is sent
\* and no line is decoded any more
C29_BothTasksDead ==
    /\ send.pc = "AttributeError" /\ read_thread = "AttributeError"
    /\ connected /\ ser /\ sessions = 2 /\ main_pc = MainAt("idle")

=============================================================================
